---- MODULE Spec2Model ----
(***************************************************************************)
(* GRAND ROOT TTree wrappers (grand/io/root_trees.py): the DataTree        *)
(* classes, the process-wide list of trees, the TTree index and the        *)
(* friend trees.                                                           *)
(*                                                                         *)
(* The wrappers sit on ROOT.  A TTree is modelled by what the wrappers'    *)
(* calls do to it: a list of branches, each with the buffer it is bound    *)
(* to and the entries filled so far, an entry count, an index and a list   *)
(* of friends.  A buffer has an identity, because the wrappers share       *)
(* buffers: the dataclass defaults (np.zeros(...), StdVectorList(...),     *)
(* StdString(...)) are evaluated once, at class definition, and every      *)
(* instance starts with the same objects.                                  *)
(***************************************************************************)
EXTENDS Integers, Sequences, FiniteSets, TLC

VARIABLES
    grand_tree_list,  \* root_trees.py:27, the instances in construction order
    inst,             \* the DataTree instances: class, _tree, _file, attributes
    tree,             \* the TTree objects, by tree id
    buf,              \* the buffers (numpy arrays, std::vector, std::string), by identity
    disk,             \* the keys written to the ROOT file
    fopen,            \* the ROOT file is open (and is gDirectory)
    fmem,             \* the trees attached to the open file's directory, in order
    ret,              \* outcome of the last call: what it returned, printed, raised
    hist              \* history: the records appended to each tree and to each key on disk

vars == <<grand_tree_list, inst, tree, buf, disk, fopen, fmem, ret, hist>>

(***************************************************************************)
(* Bounds of the model.                                                    *)
(***************************************************************************)
MaxInst == 3     \* instances constructed
MaxRows == 2     \* entries filled into one tree
MaxKey == 1      \* run_number, event_number and site take values 0..MaxKey
MaxFriends == 2  \* friends attached to one tree
MaxExtra == 2    \* branches added to one tree beyond those of its class

Keys == 0..MaxKey
NullTree == 0
\* what a float32 leaf reads from, or numpy reads out of, bytes of another width
Garbage == 0 - 1

(***************************************************************************)
(* The dataclass fields.  owner is the class whose body holds the default  *)
(* object; n is the length of the default array; setter is the shape of    *)
(* the property setter.                                                    *)
(***************************************************************************)
RunFields ==
    << [name |-> "run_number", kind |-> "ndarray", dtype |-> "u4", ndim |-> 1, n |-> 1,
        owner |-> "MotherRunTree", setter |-> "inplace"],
       [name |-> "site", kind |-> "string", dtype |-> "str", ndim |-> 0, n |-> 1,
        owner |-> "RunTree", setter |-> "string"],
       [name |-> "site_long", kind |-> "ndarray", dtype |-> "f4", ndim |-> 1, n |-> 1,
        owner |-> "RunTree", setter |-> "replace"],
       [name |-> "origin_geoid", kind |-> "ndarray", dtype |-> "f4", ndim |-> 1, n |-> 3,
        owner |-> "RunTree", setter |-> "replace"] >>

ADCFields ==
    << [name |-> "run_number", kind |-> "ndarray", dtype |-> "u4", ndim |-> 1, n |-> 1,
        owner |-> "MotherEventTree", setter |-> "inplace"],
       [name |-> "event_number", kind |-> "ndarray", dtype |-> "u4", ndim |-> 1, n |-> 1,
        owner |-> "MotherEventTree", setter |-> "inplace"],
       [name |-> "du_id", kind |-> "vector", dtype |-> "vec", ndim |-> 0, n |-> 0,
        owner |-> "ADCEventTree", setter |-> "vector"] >>

\* VoltageEventTree (lines 2487-2633) and EfieldEventTree (lines 3784-3865):
\* the keys of MotherEventTree and one of the traces
VoltageFields ==
    << ADCFields[1], ADCFields[2],
       [name |-> "trace_x", kind |-> "vector", dtype |-> "vec", ndim |-> 0, n |-> 0,
        owner |-> "VoltageEventTree", setter |-> "vector"] >>

EfieldFields ==
    << ADCFields[1], ADCFields[2],
       [name |-> "trace_x", kind |-> "vector", dtype |-> "vec", ndim |-> 0, n |-> 0,
        owner |-> "EfieldEventTree", setter |-> "vector"] >>

\* ShowerEventSimdataTree (lines 800-887): prim_energy is a vector<float>
\* whose setter tests the value against vector<vector<float>> (line 883)
ShowerEventSimdataFields ==
    << ADCFields[1], ADCFields[2],
       [name |-> "prim_energy", kind |-> "vector", dtype |-> "vec", ndim |-> 0, n |-> 0,
        owner |-> "ShowerEventSimdataTree", setter |-> "vector_of_vectors"] >>

\* DetectorInfo (lines 4323-4340): du_id and long; _cur_du_id is not a branch
DetectorInfoFields ==
    << [name |-> "du_id", kind |-> "ndarray", dtype |-> "f4", ndim |-> 1, n |-> 1,
        owner |-> "DetectorInfo", setter |-> "inplace"],
       [name |-> "long", kind |-> "ndarray", dtype |-> "f4", ndim |-> 1, n |-> 1,
        owner |-> "DetectorInfo", setter |-> "inplace"] >>

Classes == {"RunTree", "ADCEventTree"}

\* the classes of the chain of friends, and two that add no friend
ChainClasses == Classes \cup {"VoltageEventTree", "EfieldEventTree", "ShowerEventSimdataTree", "DetectorInfo"}

dataclass_fields(cls) ==
    CASE cls = "RunTree" -> RunFields
      [] cls = "VoltageEventTree" -> VoltageFields
      [] cls = "EfieldEventTree" -> EfieldFields
      [] cls = "ShowerEventSimdataTree" -> ShowerEventSimdataFields
      [] cls = "DetectorInfo" -> DetectorInfoFields
      [] OTHER -> ADCFields

tree_name(cls) ==
    CASE cls = "RunTree" -> "trun"
      [] cls = "VoltageEventTree" -> "teventvoltage"
      [] cls = "EfieldEventTree" -> "teventefield"
      [] cls = "ShowerEventSimdataTree" -> "teventshowersimdata"
      [] cls = "DetectorInfo" -> "tdetectorinfo"
      [] OTHER -> "teventadc"

FieldIdx(cls, f) == CHOOSE k \in 1..Len(dataclass_fields(cls)) : dataclass_fields(cls)[k].name = f

Field(cls, f) == dataclass_fields(cls)[FieldIdx(cls, f)]

FieldNames(cls) == {dataclass_fields(cls)[k].name : k \in 1..Len(dataclass_fields(cls))}

(***************************************************************************)
(* Buffers.  A buffer is [dt, wt, v]: dt is the element type the Python    *)
(* object has, wt the element type of whoever wrote the bytes last, v the  *)
(* elements.  A string is one element, its code (0 is ""); a vector is its *)
(* elements.                                                               *)
(***************************************************************************)
ClsBuf(owner, f) == [k |-> "cls", c |-> owner, f |-> f, n |-> 0, p |-> 0]
OwnBuf(i, f) == [k |-> "own", c |-> "", f |-> f, n |-> i, p |-> 0]
IntBuf(t, f, p) == [k |-> "int", c |-> "", f |-> f, n |-> t, p |-> p]
\* the ROOT vector the caller made and gave to the setter of field f of instance i
UsrBuf(i, f) == [k |-> "usr", c |-> "", f |-> f, n |-> i, p |-> 0]

Zeros(n) == [j \in 1..n |-> 0]

DefaultValue(d) == [dt |-> d.dtype, wt |-> d.dtype, v |-> Zeros(d.n)]

\* np.array(value): a fresh array with the element type of the value
np_array(val) == [dt |-> val.dt, wt |-> val.dt, v |-> val.v]

\* what Python reads out of a buffer
NumpyRead(b) == IF b.wt = b.dt THEN b.v ELSE [j \in 1..Len(b.v) |-> Garbage]

(***************************************************************************)
(* Field Mapper: the leaflist create_branch_from_field computes.           *)
(***************************************************************************)
DtypeChar(dt) ==
    CASE dt = "i1" -> "B" [] dt = "u1" -> "b" [] dt = "i2" -> "S" [] dt = "u2" -> "s"
      [] dt = "i4" -> "I" [] dt = "u4" -> "i" [] dt = "i8" -> "L" [] dt = "u8" -> "l"
      [] dt = "f4" -> "F" [] dt = "f8" -> "D" [] dt = "b1" -> "O"
      [] OTHER -> ""

CharDtype(c) ==
    CASE c = "B" -> "i1" [] c = "b" -> "u1" [] c = "S" -> "i2" [] c = "s" -> "u2"
      [] c = "I" -> "i4" [] c = "i" -> "u4" [] c = "L" -> "i8" [] c = "l" -> "u8"
      [] c = "F" -> "f4" [] c = "D" -> "f8" [] c = "O" -> "b1"
      [] OTHER -> "f4"

\* lines 204-207: "/" for a one-dimensional default, "[ndim]/" otherwise
SizeValType(d) == IF d.ndim = 1 THEN [len |-> 1, tchar |-> ""] ELSE [len |-> d.ndim, tchar |-> ""]

\* lines 210-231: the data type string replaces what lines 204-207 computed
ValType(d) ==
    IF DtypeChar(d.dtype) # "" THEN [len |-> 1, tchar |-> DtypeChar(d.dtype)] ELSE SizeValType(d)

\* the branch create_branch_from_field adds for field d, bound to buffer b
create_branch_from_field(d, b) ==
    IF d.kind = "ndarray"
    THEN [name |-> d.name, kind |-> "leaf", tchar |-> ValType(d).tchar, len |-> ValType(d).len,
          addr |-> b, data |-> << >>]
    ELSE [name |-> d.name, kind |-> d.kind, tchar |-> "", len |-> 0, addr |-> b, data |-> << >>]

\* lines 200, 237, 242: the field is one of the three kinds create_branch_from_field
\* has a Branch call for; any other reaches print and exit() (lines 245-247)
has_branch_call(d) == d.kind \in {"ndarray", "vector", "string"}

\* TTree::Branch(name, address, leaflist): a leaf list that names no type
\* letter is refused by ROOT (an error message, a null branch, no exception)
\* and the tree is left as it was
TTree_Branch(brs, br) == IF br.kind = "leaf" /\ br.tchar = "" THEN brs ELSE Append(brs, br)

(***************************************************************************)
(* TTree, as the wrappers use it.  Each operator takes the trees tr and    *)
(* the buffers bf and gives back the ones the call leaves.                 *)
(***************************************************************************)
NoIndex == [built |-> FALSE, major |-> "", minor |-> "", rows |-> << >>]

\* ROOT.TTree(name, title)
NewTree(name) ==
    [name |-> name, branches |-> << >>, entries |-> 0, index |-> NoIndex, friends |-> << >>]

BytesPerBranch == 4

\* element j of a buffer, read as the element type of a leaf
LeafRead(b, tchar, j) ==
    IF j > Len(b.v) THEN Garbage
    ELSE IF b.dt = CharDtype(tchar) THEN b.v[j]
    ELSE IF j = 1 /\ b.wt = CharDtype(tchar) THEN b.v[1]
    ELSE IF j = 1 /\ b.wt = "f8" /\ CharDtype(tchar) = "f4" THEN 0
    ELSE Garbage

\* what a branch holds now: a leaf reads len elements at its address, a
\* vector or string branch the whole object
BranchValue(br, bf) ==
    IF br.kind = "leaf" THEN [j \in 1..br.len |-> LeafRead(bf[br.addr], br.tchar, j)]
    ELSE bf[br.addr].v

\* a Fill that counts the entry once per call and once more per branch list
TTree_Fill_CountsTwice(tr, bf, t) ==
    [tr EXCEPT ![t].entries = @ + 2,
               ![t].branches = [p \in 1..Len(@) |->
                                   [@[p] EXCEPT !.data = Append(@, BranchValue(tr[t].branches[p], bf))]]]

\* TTree::Fill: every branch appends what is at its address
TTree_Fill(tr, bf, t) ==
    [tr EXCEPT ![t].entries = @ + 1,
               ![t].branches = [p \in 1..Len(@) |->
                                   [@[p] EXCEPT !.data = Append(@, BranchValue(tr[t].branches[p], bf))]]]

\* TBranch::GetEntry: entry e of the branch is copied to its address
BranchGetEntry(bf, br, e) ==
    IF e < 0 \/ e >= Len(br.data) THEN bf
    ELSE IF br.kind = "leaf"
         THEN [bf EXCEPT ![br.addr] =
                  [dt |-> @.dt, wt |-> CharDtype(br.tchar),
                   v |-> [j \in 1..Len(@.v) |-> IF j <= br.len THEN br.data[e + 1][j] ELSE @.v[j]]]]
         ELSE [bf EXCEPT ![br.addr].v = br.data[e + 1]]

RECURSIVE BranchesGetEntry(_, _, _, _)
BranchesGetEntry(bf, brs, p, e) ==
    IF p > Len(brs) THEN bf ELSE BranchesGetEntry(BranchGetEntry(bf, brs[p], e), brs, p + 1, e)

\* number of bytes the branches of a tree give for entry e
BranchesBytes(brs, e) == BytesPerBranch * Cardinality({p \in 1..Len(brs) : e < Len(brs[p].data)})

\* TTree::GetBranch / GetLeaf by name: the first branch of that name
HasBranch(tr, t, f) == \E p \in 1..Len(tr[t].branches) : tr[t].branches[p].name = f

FirstBranchPos(tr, t, f) ==
    CHOOSE p \in 1..Len(tr[t].branches) :
        /\ tr[t].branches[p].name = f
        /\ \A q \in 1..(p - 1) : tr[t].branches[q].name # f

FirstBranch(tr, t, f) == tr[t].branches[FirstBranchPos(tr, t, f)]

\* value of the formula "name" ("0" is the constant) on the current entry of tree t
FormulaValue(tr, bf, t, name) ==
    IF name = "0" THEN 0 ELSE LeafRead(bf[FirstBranch(tr, t, name).addr], FirstBranch(tr, t, name).tchar, 1)

FormulaDefined(tr, t, name) == name = "0" \/ HasBranch(tr, t, name)

\* a look-up that compares the major value only
IndexEntries_MajorOnly(idx, major, minor) ==
    {idx.rows[k].row : k \in {j \in 1..Len(idx.rows) : idx.rows[j].maj = major}}

\* TTreeIndex::GetEntryNumberWithIndex: the entries the index holds for (major, minor)
IndexEntries(idx, major, minor) ==
    {idx.rows[k].row : k \in {j \in 1..Len(idx.rows) : idx.rows[j].maj = major /\ idx.rows[j].min = minor}}

\* TTree::GetEntryNumberWithIndex: -1 without an index or without the key;
\* for a key held twice the entry the binary search lands on is any of them
EntryNumbersWithIndex(tr, t, major, minor) ==
    IF ~tr[t].index.built \/ IndexEntries(tr[t].index, major, minor) = {} THEN {0 - 1}
    ELSE IndexEntries(tr[t].index, major, minor)

\* TTreeIndex::GetEntryNumberFriend: the entry of friend ft for the current entry e of parent t
FriendEntryNumbers(tr, bf, ft, t, e) ==
    IF ~tr[ft].index.built THEN {e}
    ELSE IF ~(FormulaDefined(tr, t, tr[ft].index.major) /\ FormulaDefined(tr, t, tr[ft].index.minor))
         THEN (IF e >= tr[ft].entries THEN {0 - 2} ELSE {e})
    ELSE EntryNumbersWithIndex(tr, ft, FormulaValue(tr, bf, t, tr[ft].index.major),
                               FormulaValue(tr, bf, t, tr[ft].index.minor))

MaxFriendDepth == 3

\* TTree::GetEntry: [buf, res]; res is the number of bytes read, 0 when the
\* entry does not exist.  Friends follow, each at the entry its index gives
\* (the entry of the same number when it has none).
RECURSIVE TTree_GetEntry(_, _, _, _, _)
RECURSIVE FriendsGetEntry(_, _, _, _, _, _)
FriendsGetEntry(tr, bf, t, e, k, depth) ==
    IF k > Len(tr[t].friends) \/ depth = 0 THEN [buf |-> bf, res |-> 0]
    ELSE LET ft == tr[t].friends[k]
             fe == CHOOSE x \in FriendEntryNumbers(tr, bf, ft, t, e) : TRUE
             one == IF fe >= 0 /\ fe < tr[ft].entries
                    THEN TTree_GetEntry(tr, bf, ft, fe, depth - 1)
                    ELSE [buf |-> bf, res |-> 0]
             rest == FriendsGetEntry(tr, one.buf, t, e, k + 1, depth)
         IN  [buf |-> rest.buf, res |-> one.res + rest.res]

TTree_GetEntry(tr, bf, t, e, depth) ==
    IF e < 0 \/ e >= tr[t].entries THEN [buf |-> bf, res |-> 0]
    ELSE LET own == BranchesGetEntry(bf, tr[t].branches, 1, e)
             fr == FriendsGetEntry(tr, own, t, e, 1, depth)
         IN  [buf |-> fr.buf, res |-> BranchesBytes(tr[t].branches, e) + fr.res]

Upd(f, x, y) == [z \in (DOMAIN f) \cup {x} |-> IF z = x THEN y ELSE f[z]]

\* the value a leaf, vector or string branch has when nothing is bound to it
BranchZero(br) ==
    IF br.kind = "leaf" THEN [dt |-> CharDtype(br.tchar), wt |-> CharDtype(br.tchar), v |-> Zeros(br.len)]
    ELSE IF br.kind = "string" THEN [dt |-> "str", wt |-> "str", v |-> <<0>>]
    ELSE [dt |-> "vec", wt |-> "vec", v |-> << >>]

\* TTree::ResetBranchAddresses: every branch goes back to a buffer of its own
RECURSIVE ResetBuffers(_, _, _, _)
ResetBuffers(bf, brs, t, p) ==
    IF p > Len(brs) THEN bf
    ELSE ResetBuffers(Upd(bf, IntBuf(t, brs[p].name, p), BranchZero(brs[p])), brs, t, p + 1)

ResetBranchAddresses(tr, bf, t) ==
    [tree |-> [tr EXCEPT ![t].branches =
                  [p \in 1..Len(@) |-> [@[p] EXCEPT !.addr = IntBuf(t, tr[t].branches[p].name, p)]]],
     buf |-> ResetBuffers(bf, tr[t].branches, t, 1)]

\* TTree::SetBranchAddress(name, buffer): the first branch of that name
SetBranchAddress(tr, t, f, b) ==
    IF HasBranch(tr, t, f) THEN [tr EXCEPT ![t].branches[FirstBranchPos(tr, t, f)].addr = b] ELSE tr

(***************************************************************************)
(* The index.  BuildIndex evaluates the key formulas on every entry, which *)
(* reads the key branches into the buffers they are bound to, and keeps    *)
(* the (major, minor, entry) triples sorted by key.                        *)
(***************************************************************************)
KeyAt(tr, bf, t, name, e) ==
    IF name = "0" THEN 0
    ELSE IF e < Len(FirstBranch(tr, t, name).data) THEN FirstBranch(tr, t, name).data[e + 1][1]
    ELSE LeafRead(bf[FirstBranch(tr, t, name).addr], FirstBranch(tr, t, name).tchar, 1)

KeyLess(a, b) ==
    \/ a.maj < b.maj
    \/ a.maj = b.maj /\ a.min < b.min
    \/ a.maj = b.maj /\ a.min = b.min /\ a.row < b.row

RECURSIVE SortRows(_)
SortRows(S) ==
    IF S = {} THEN << >>
    ELSE LET m == CHOOSE x \in S : \A y \in S \ {x} : KeyLess(x, y)
         IN  <<m>> \o SortRows(S \ {m})

IndexRows(tr, bf, t, major, minor) ==
    SortRows({[maj |-> KeyAt(tr, bf, t, major, e), min |-> KeyAt(tr, bf, t, minor, e), row |-> e] :
                 e \in 0..(tr[t].entries - 1)})

\* the buffers after the key branches were read up to the last entry
BuildIndexBuffers(tr, bf, t, major, minor) ==
    LET last == tr[t].entries - 1
        b1 == IF major # "0" /\ HasBranch(tr, t, major)
              THEN BranchGetEntry(bf, FirstBranch(tr, t, major), last) ELSE bf
    IN  IF minor # "0" /\ HasBranch(tr, t, minor)
        THEN BranchGetEntry(b1, FirstBranch(tr, t, minor), last) ELSE b1

\* TTree::BuildIndex(major, minor): the new TTreeIndex replaces the one the
\* tree had; one made over no entries, or over a formula the tree cannot
\* evaluate, is a zombie, and the tree is left with no index
TTree_BuildIndex(tr, bf, t, major, minor) ==
    IF ~(FormulaDefined(tr, t, major) /\ FormulaDefined(tr, t, minor)) \/ tr[t].entries = 0
    THEN [tree |-> [tr EXCEPT ![t].index = NoIndex], buf |-> bf]
    ELSE [tree |-> [tr EXCEPT ![t].index =
                       [built |-> TRUE, major |-> major, minor |-> minor,
                        rows |-> IndexRows(tr, bf, t, major, minor)]],
          buf |-> BuildIndexBuffers(tr, bf, t, major, minor)]

\* TTree::GetEntryWithIndex(major, minor), once the index gave entry serial:
\* -1 without the key; the branches are read; then every friend is asked for
\* the same (major, minor), and the first that has no such key ends the call
\* with minus the bytes read so far
RECURSIVE FriendsWithIndex(_, _, _, _, _, _, _)
FriendsWithIndex(tr, bf, t, major, minor, k, nbytes) ==
    IF k > Len(tr[t].friends) THEN [buf |-> bf, res |-> nbytes]
    ELSE LET ft == tr[t].friends[k]
             fe == CHOOSE x \in EntryNumbersWithIndex(tr, ft, major, minor) : TRUE
         IN  IF fe < 0 THEN [buf |-> bf, res |-> 0 - nbytes]
             ELSE LET one == TTree_GetEntry(tr, bf, ft, fe, MaxFriendDepth)
                  IN  FriendsWithIndex(tr, one.buf, t, major, minor, k + 1, nbytes + one.res)

TTree_GetEntryWithIndex(tr, bf, t, major, minor, serial) ==
    IF serial < 0 THEN [buf |-> bf, res |-> 0 - 1]
    ELSE FriendsWithIndex(tr, BranchesGetEntry(bf, tr[t].branches, 1, serial), t, major, minor, 1,
                          BranchesBytes(tr[t].branches, serial))

(***************************************************************************)
(* The wrappers.  S is [inst, tree, buf], the part of the state a call     *)
(* works on.                                                               *)
(***************************************************************************)
\* the Python type PyROOT gives for the value of a leaf: float or int
PyDtype(tchar) == IF tchar \in {"F", "D"} THEN "f8" ELSE IF tchar = "O" THEN "b1" ELSE "i8"

\* self._x[0] = value (run_number, event_number: lines 285-287, 330-340)
SetInplace(S, i, f, x) ==
    [S EXCEPT !.buf[S.inst[i].attr[f]] = [dt |-> @.dt, wt |-> @.dt, v |-> [@.v EXCEPT ![1] = x]]]

\* self._x = np.array(value); self._tree.SetBranchAddress(name, self._x) (lines 517-538)
SetReplace(S, i, f, val) ==
    [inst |-> [S.inst EXCEPT ![i].attr[f] = OwnBuf(i, f)],
     buf |-> Upd(S.buf, OwnBuf(i, f), np_array(val)),
     tree |-> SetBranchAddress(S.tree, S.inst[i].tree, f, OwnBuf(i, f))]

\* self._site.string.assign(value) (lines 504-510)
SetString(S, i, f, x) == [S EXCEPT !.buf[S.inst[i].attr[f]].v = <<x>>]

\* a vector setter given a list: self._x.clear(); self._x += value (lines 1619-1624)
SetVectorList(S, i, f, val) == [S EXCEPT !.buf[S.inst[i].attr[f]].v = val]

\* a vector setter given a ROOT vector, the object b: self._x.clear() comes
\* first, then self._x = value (lines 1619-1627)
SetVectorRef(S, i, f, b) ==
    [S EXCEPT !.buf[S.inst[i].attr[f]].v = << >>, !.inst[i].attr[f] = b]

\* a vector setter given a ROOT vector the caller has just made, of content
\* val: self._x.clear() empties the object the attribute was, self._x = value
\* makes the attribute the caller's vector (lines 3737, 3743-3744); the
\* branch keeps the address it was given by create_branches
SetVectorNative(S, i, f, val) ==
    LET cleared == [S EXCEPT !.buf[S.inst[i].attr[f]].v = << >>]
    IN  [cleared EXCEPT !.buf = Upd(@, UsrBuf(i, f), [dt |-> "vec", wt |-> "vec", v |-> val.v]),
                        !.inst[i].attr[f] = UsrBuf(i, f)]

\* lines 257-260: u = getattr(self._tree, name); setattr(self, name, u)
AssignField(S, i, d) ==
    LET br == FirstBranch(S.tree, S.inst[i].tree, d.name)
        x == LeafRead(S.buf[br.addr], br.tchar, 1)
    IN  CASE d.setter = "inplace" -> SetInplace(S, i, d.name, x)
          [] d.setter = "replace" ->
                SetReplace(S, i, d.name,
                           IF br.len = 1 THEN [dt |-> PyDtype(br.tchar), v |-> <<x>>]
                           ELSE [dt |-> CharDtype(br.tchar), v |-> BranchValue(br, S.buf)])
          [] d.setter = "string" -> SetString(S, i, d.name, S.buf[br.addr].v[1])
          [] OTHER -> SetVectorRef(S, i, d.name, br.addr)

RECURSIVE AssignFrom(_, _, _)
AssignFrom(S, i, k) ==
    IF k > Len(dataclass_fields(S.inst[i].cls)) THEN S
    ELSE AssignFrom(AssignField(S, i, dataclass_fields(S.inst[i].cls)[k]), i, k + 1)

assign_branches(S, i) == AssignFrom(S, i, 1)

\* the record an instance shows through its properties
Record(ins, bf, i) == [f \in FieldNames(ins[i].cls) |-> NumpyRead(bf[ins[i].attr[f]])]

\* lines 186-195: reset the addresses, then one new branch per field
RECURSIVE AddBranches(_, _, _, _)
AddBranches(brs, ins, i, k) ==
    IF k > Len(dataclass_fields(ins[i].cls)) THEN brs
    ELSE AddBranches(TTree_Branch(brs, create_branch_from_field(dataclass_fields(ins[i].cls)[k],
                                                                ins[i].attr[dataclass_fields(ins[i].cls)[k].name])),
                     ins, i, k + 1)

create_branches(S, i) ==
    LET t == S.inst[i].tree
        r == ResetBranchAddresses(S.tree, S.buf, t)
    IN  [inst |-> S.inst, buf |-> r.buf,
         tree |-> [r.tree EXCEPT ![t].branches = AddBranches(@, S.inst, i, 1)]]

\* every instance of the list, whatever its class
InstancesOf_AnyClass(lst, ins, cls) == lst

\* the instances of class cls in grand_tree_list, in order (lines 1244-1246)
RECURSIVE InstancesOf(_, _, _)
InstancesOf(lst, ins, cls) ==
    IF lst = << >> THEN << >>
    ELSE (IF ins[Head(lst)].cls = cls THEN <<Head(lst)>> ELSE << >>) \o InstancesOf(Tail(lst), ins, cls)

Last(s) == s[Len(s)]

\* the first RunTree of the list instead of the last
find_first(trees) == Head(trees)

\* lines 1252-1253: the tree that is made the friend
find_latest(trees) == Last(trees)

\* a test that takes one RunTree for several
ambiguous_from_one(trees) == Len(trees) > 0

\* line 1250: more than one RunTree is in the list
ambiguous(trees) == Len(trees) > 1

\* TTree::AddFriend: a null tree is not added
TTree_AddFriend(tr, t, ft) == IF ft = NullTree THEN tr ELSE [tr EXCEPT ![t].friends = Append(@, ft)]

\* every event class looking for a RunTree
friend_class_run(cls) ==
    IF cls \in {"ADCEventTree", "VoltageEventTree", "EfieldEventTree"} THEN "RunTree" ELSE ""

\* the class whose instances add_proper_friends of class cls looks for in
\* grand_tree_list (lines 1246, 2645, 3877); "" for a class that looks for none
friend_class(cls) ==
    CASE cls = "ADCEventTree" -> "RunTree"
      [] cls = "VoltageEventTree" -> "ADCEventTree"
      [] cls = "EfieldEventTree" -> "VoltageEventTree"
      [] OTHER -> ""

\* the notice of lines 1251, 2650, 3882
more_than_one(cls) ==
    CASE cls = "ADCEventTree" -> "More than 1 RunTree"
      [] cls = "VoltageEventTree" -> "More than 1 ADCEventTree"
      [] OTHER -> "More than 1 VoltageEventTree"

\* add_proper_friends: DataTree lines 155-156 (pass), RunTree lines 420-422,
\* DetectorInfo lines 4372-4375, ADCEventTree lines 1237-1256,
\* VoltageEventTree lines 2635-2655, EfieldEventTree lines 3867-3887.
\* [S, msg]
add_proper_friends(S, lst, i) ==
    IF S.inst[i].cls = "ShowerEventSimdataTree"
    THEN [S |-> S, msg |-> {}]
    ELSE IF S.inst[i].cls \in {"RunTree", "DetectorInfo"}
    THEN LET r == TTree_BuildIndex(S.tree, S.buf, S.inst[i].tree,
                                   IF S.inst[i].cls = "RunTree" THEN "run_number" ELSE "du_id", "0")
         IN  [S |-> [inst |-> S.inst, tree |-> r.tree, buf |-> r.buf], msg |-> {}]
    ELSE LET r == TTree_BuildIndex(S.tree, S.buf, S.inst[i].tree, "run_number", "event_number")
             run_trees == InstancesOf(lst, S.inst, friend_class(S.inst[i].cls))
         IN  IF Len(run_trees) > 0
             THEN [S |-> [inst |-> S.inst, buf |-> r.buf,
                          tree |-> TTree_AddFriend(r.tree, S.inst[i].tree,
                                                   S.inst[find_latest(run_trees)].tree)],
                   msg |-> IF ambiguous(run_trees) THEN {more_than_one(S.inst[i].cls)} ELSE {}]
             ELSE [S |-> [inst |-> S.inst, tree |-> r.tree, buf |-> r.buf], msg |-> {}]

(***************************************************************************)
(* The ROOT file.  There is one, "f.root"; while it is open it is          *)
(* gDirectory, so a TTree created then is attached to it, and Get looks    *)
(* among the attached trees before the keys on disk.                       *)
(***************************************************************************)
MemPositions(tr, mem, name) == {k \in 1..Len(mem) : tr[mem[k]].name = name}

\* TFile::Get(name) for instance i: [t, tree, buf, mem]; t is null when there is no such tree
TFile_Get(tr, bf, mem, dk, name, i) ==
    IF MemPositions(tr, mem, name) # {}
    THEN [t |-> mem[CHOOSE k \in MemPositions(tr, mem, name) :
                        \A j \in MemPositions(tr, mem, name) : k <= j],
          tree |-> tr, buf |-> bf, mem |-> mem]
    ELSE IF name \in DOMAIN dk
    THEN LET loaded == [dk[name] EXCEPT
                           !.branches = [p \in 1..Len(@) |->
                                            [@[p] EXCEPT !.addr = IntBuf(i, dk[name].branches[p].name, p)]]]
         IN  [t |-> i, tree |-> Upd(tr, i, loaded),
              buf |-> ResetBuffers(bf, loaded.branches, i, 1), mem |-> Append(mem, i)]
    ELSE [t |-> NullTree, tree |-> tr, buf |-> bf, mem |-> mem]

\* a Write that leaves the index out of the file
Snapshot_NoIndex(trec) ==
    [trec EXCEPT !.friends = << >>, !.index = NoIndex,
                 !.branches = [p \in 1..Len(@) |-> [@[p] EXCEPT !.addr = IntBuf(0, trec.branches[p].name, p)]]]

\* what TTree::Write puts under a key: the entries and the index; the friends
\* are left out of the model of the file
Snapshot(trec) ==
    [trec EXCEPT !.friends = << >>,
                 !.branches = [p \in 1..Len(@) |-> [@[p] EXCEPT !.addr = IntBuf(0, trec.branches[p].name, p)]]]


\* TTree::GetBranch(name): the tree that holds the first branch of that name,
\* looked for in the tree, then in its friends in the order they were added,
\* each with its own friends; a tree the search is already in (locked) gives
\* none.  NullTree when there is none.
RECURSIVE GetBranchTree(_, _, _, _)
RECURSIVE GetBranchFriend(_, _, _, _, _)
GetBranchFriend(tr, t, k, f, locked) ==
    IF k > Len(tr[t].friends) THEN NullTree
    ELSE IF GetBranchTree(tr, tr[t].friends[k], f, locked) # NullTree
         THEN GetBranchTree(tr, tr[t].friends[k], f, locked)
    ELSE GetBranchFriend(tr, t, k + 1, f, locked)

GetBranchTree(tr, t, f, locked) ==
    IF t \in locked THEN NullTree
    ELSE IF HasBranch(tr, t, f) THEN t
    ELSE GetBranchFriend(tr, t, 1, f, locked \cup {t})

\* getattr(tree, name): the first branch of that name, in the tree or, failing
\* that, in its friends from the k-th on; << >> when there is none
FriendWithBranch(tr, t, k, f) == GetBranchFriend(tr, t, k, f, {t})

TTree_getattr(tr, bf, t, f) ==
    IF HasBranch(tr, t, f) THEN BranchValue(FirstBranch(tr, t, f), bf)
    ELSE IF FriendWithBranch(tr, t, 1, f) = NullTree THEN << >>
    ELSE BranchValue(FirstBranch(tr, FriendWithBranch(tr, t, 1, f), f), bf)

Result(op, i, arg, res, msg, exc) ==
    [op |-> op, i |-> i, arg |-> arg, res |-> res, msg |-> msg, exc |-> exc]

\* the outcome of a call that returns nothing, prints nothing and raises nothing
NoResult == Result("none", 0, << >>, 0, {}, "none")

(***************************************************************************)
(* History.  hist.mem[t] is, for TTree t, the number of entries it had     *)
(* when it was read from the file (inh), the number of fill calls made on  *)
(* it since (app), and the record the caller saw at each of its entries    *)
(* (rows); hist.disk[name] is rows of the tree written under that key.     *)
(***************************************************************************)
NewHist == [inh |-> 0, app |-> 0, rows |-> << >>]

\* the record of instance i has, in every array field, the element type and
\* the length of the column (the default of the dataclass field)
Conforms(ins, bf, i) ==
    \A k \in 1..Len(dataclass_fields(ins[i].cls)) :
        LET d == dataclass_fields(ins[i].cls)[k]
        IN  d.kind = "ndarray" => /\ bf[ins[i].attr[d.name]].dt = d.dtype
                                  /\ Len(bf[ins[i].attr[d.name]].v) = d.n

\* no two branches of tree t have the same name: the tree was made by the
\* constructor of the one instance that uses it
NoDuplicateBranches(tr, t) ==
    \A p, q \in 1..Len(tr[t].branches) : tr[t].branches[p].name = tr[t].branches[q].name => p = q

\* what the history keeps of a fill call of instance i
HistRow(ins, tr, bf, i) ==
    [rec |-> Record(ins, bf, i), conforms |-> Conforms(ins, bf, i),
     created |-> NoDuplicateBranches(tr, ins[i].tree)]

\* the default objects of the dataclass fields, made when the classes are
ClassDefaults ==
    UNION {{<<ClsBuf(dataclass_fields(cls)[k].owner, dataclass_fields(cls)[k].name),
              DefaultValue(dataclass_fields(cls)[k])>> : k \in 1..Len(dataclass_fields(cls))} :
              cls \in ChainClasses}

Init ==
    /\ grand_tree_list = << >>
    /\ inst = << >>
    /\ tree = << >>
    /\ buf = [b \in {p[1] : p \in ClassDefaults} |-> (CHOOSE p \in ClassDefaults : p[1] = b)[2]]
    /\ disk = << >>
    /\ fopen = FALSE
    /\ fmem = << >>
    /\ ret = NoResult
    /\ hist = [mem |-> << >>, disk |-> << >>]

Live(i) == i \in 1..Len(inst) /\ inst[i].tree # NullTree

\* line 4330: _cur_du_id: int = -1
NoUnit == 0 - 1

\* an instance put at the head of the list
register_first(lst, i) == <<i>> \o lst

\* line 97: grand_tree_list.append(self)
register(lst, i) == Append(lst, i)

(***************************************************************************)
(* DataTree.__post_init__ (lines 94-126) followed by the daughter's        *)
(* __post_init__ (lines 410-418, 1389-1397).  how is what _file was given  *)
(* as: None, a TFile the caller has opened, or the file name.  The _file   *)
(* of an instance is None, an open TFile, or ("Closed") the TFile that     *)
(* write opened and closed.                                                *)
(***************************************************************************)
post_init(cls, how) ==
    /\ Len(inst) < MaxInst
    /\ how = "TFile" => fopen
    /\ LET i == Len(inst) + 1
           name == tree_name(cls)
       IN  \E g \in {IF how = "None"
                     THEN [t |-> i, tree |-> Upd(tree, i, NewTree(name)), buf |-> buf,
                           mem |-> IF fopen THEN Append(fmem, i) ELSE fmem]
                     ELSE TFile_Get(tree, buf, fmem, disk, name, i)} :
           LET \* lines 124-126: only the file name branch tests the tree it got
               lenient == how = "str" /\ g.t = NullTree
               g2 == IF lenient
                     THEN [t |-> i, tree |-> Upd(g.tree, i, NewTree(name)), buf |-> g.buf,
                           mem |-> Append(g.mem, i)]
                     ELSE g
               me == [cls |-> cls, tree |-> g2.t, file |-> IF how = "None" THEN "None" ELSE "TFile",
                      attr |-> [f \in FieldNames(cls) |-> ClsBuf(Field(cls, f).owner, f)],
                      cur_du_id |-> NoUnit]
               S0 == [inst |-> Append(inst, me), tree |-> g2.tree, buf |-> g2.buf]
               \* self._tree.GetName() on a null tree raises before create_branches
               S1 == IF g2.t = NullTree THEN S0 ELSE create_branches(S0, i)
               loaded == how # "None" /\ g.t = i
           IN  /\ grand_tree_list' = register(grand_tree_list, i)
               /\ inst' = S1.inst
               /\ tree' = S1.tree
               /\ buf' = S1.buf
               /\ fopen' = (fopen \/ how = "str")
               /\ fmem' = g2.mem
               /\ disk' = disk
               /\ hist' = IF loaded
                          THEN [hist EXCEPT !.mem = Upd(@, i, [inh |-> Len(hist.disk[name]), app |-> 0,
                                                               rows |-> hist.disk[name]])]
                          ELSE IF g2.t = i THEN [hist EXCEPT !.mem = Upd(@, i, NewHist)]
                          ELSE hist
               /\ ret' = Result("init", i, <<how>>, IF g.t = NullTree THEN 0 ELSE 1,
                                IF lenient THEN {"No valid TTree"} ELSE {},
                                IF g2.t = NullTree THEN "ReferenceError" ELSE "none")

\* the caller opens the file: ROOT.TFile("f.root", "update")
OpenFile ==
    /\ ~fopen
    /\ fopen' = TRUE
    /\ ret' = NoResult
    /\ UNCHANGED <<grand_tree_list, inst, tree, buf, disk, fmem, hist>>

\* the isinstance tests of the setters: a str for a string field (line 507),
\* a list for a vector field (line 1623); the array setters test nothing
accepts(d, val) ==
    CASE d.setter = "string" -> val.dt = "str"
      [] d.setter = "vector" -> val.dt \in {"vec", "vector"}
      [] d.setter = "vector_of_vectors" -> val.dt = "vec"
      [] OTHER -> TRUE

\* a property setter called by the user.  A string setter tests the value
\* and calls exit() before it assigns (lines 507-510); a vector setter
\* clears the vector, then tests the value and calls exit() (lines 1621-1629)
set_field(i, f, val) ==
    /\ Live(i)
    /\ f \in FieldNames(inst[i].cls)
    /\ LET S == [inst |-> inst, tree |-> tree, buf |-> buf]
           d == Field(inst[i].cls, f)
       IN  \E S1 \in {CASE d.setter = "inplace" -> SetInplace(S, i, f, val.v[1])
                        [] d.setter = "replace" -> SetReplace(S, i, f, val)
                        [] d.setter = "string" -> (IF accepts(d, val) THEN SetString(S, i, f, val.v[1]) ELSE S)
                        [] OTHER -> (IF accepts(d, val) /\ val.dt = "vector"
                                     THEN SetVectorNative(S, i, f, val)
                                     ELSE SetVectorList(S, i, f, IF accepts(d, val) THEN val.v ELSE << >>))} :
               /\ inst' = S1.inst
               /\ tree' = S1.tree
               /\ buf' = S1.buf
               /\ ret' = IF accepts(d, val) THEN NoResult
                         ELSE Result("set_field", i, <<f>>, 0, {"Incorrect type"}, "SystemExit")
    /\ UNCHANGED <<grand_tree_list, disk, fopen, fmem, hist>>

\* lines 128-129
fill(i) ==
    /\ Live(i)
    /\ tree[inst[i].tree].entries < MaxRows
    /\ tree' = TTree_Fill(tree, buf, inst[i].tree)
    /\ hist' = [hist EXCEPT !.mem[inst[i].tree] =
                   [inh |-> @.inh, app |-> @.app + 1, rows |-> Append(@.rows, HistRow(inst, tree, buf, i))]]
    /\ ret' = NoResult
    /\ UNCHANGED <<grand_tree_list, inst, buf, disk, fopen, fmem>>

\* lines 161-164
get_entry(i, ev_no) ==
    /\ Live(i)
    /\ \E r \in {TTree_GetEntry(tree, buf, inst[i].tree, ev_no, MaxFriendDepth)} :
       \E S1 \in {assign_branches([inst |-> inst, tree |-> tree, buf |-> r.buf], i)} :
           /\ inst' = S1.inst
           /\ tree' = S1.tree
           /\ buf' = S1.buf
           /\ ret' = Result("get_entry", i, <<ev_no>>, r.res, {}, "none")
    /\ UNCHANGED <<grand_tree_list, disk, fopen, fmem, hist>>

\* the body get_run, get_event and get_entry_with_index share: lines 263-270,
\* 304-314, 360-370
LookupStep(op, i, major, minor) ==
    \E serial \in EntryNumbersWithIndex(tree, inst[i].tree, major, minor) :
    \E r \in {TTree_GetEntryWithIndex(tree, buf, inst[i].tree, major, minor, serial)} :
    \E S1 \in {IF r.res = 0 \/ r.res = 0 - 1
               THEN [inst |-> inst, tree |-> tree, buf |-> r.buf]
               ELSE assign_branches([inst |-> inst, tree |-> tree, buf |-> r.buf], i)} :
        LET miss == r.res = 0 \/ r.res = 0 - 1
        IN  /\ inst' = S1.inst
            /\ tree' = S1.tree
            /\ buf' = S1.buf
            /\ ret' = Result(op, i, <<major, minor>>, IF miss THEN 0 ELSE r.res,
                             IF miss THEN {"No such entry"} ELSE {}, "none")

\* MotherRunTree.get_run(run_no), lines 304-314
get_run(i, run_no) ==
    /\ Live(i)
    /\ inst[i].cls = "RunTree"
    /\ LookupStep("get_run", i, run_no, 0)
    /\ UNCHANGED <<grand_tree_list, disk, fopen, fmem, hist>>

\* MotherEventTree.get_event(ev_no, run_no), lines 360-370
get_event(i, ev_no, run_no) ==
    /\ Live(i)
    /\ inst[i].cls = "ADCEventTree"
    /\ LookupStep("get_event", i, run_no, ev_no)
    /\ UNCHANGED <<grand_tree_list, disk, fopen, fmem, hist>>

\* DataTree.get_entry_with_index(run_no, evt_no), lines 263-270
get_entry_with_index(i, run_no, evt_no) ==
    /\ Live(i)
    /\ LookupStep("get_entry_with_index", i, run_no, evt_no)
    /\ UNCHANGED <<grand_tree_list, disk, fopen, fmem, hist>>

\* DetectorInfo.__getitem__(index), lines 4364-4369: the result of
\* GetEntryWithIndex is not looked at, and the instance is returned
getitem(i, index) ==
    /\ Live(i)
    /\ inst[i].cls = "DetectorInfo"
    /\ IF inst[i].cur_du_id # index
       THEN /\ \E serial \in EntryNumbersWithIndex(tree, inst[i].tree, index, 0) :
                   buf' = TTree_GetEntryWithIndex(tree, buf, inst[i].tree, index, 0, serial).buf
            /\ inst' = [inst EXCEPT ![i].cur_du_id = index]
       ELSE UNCHANGED <<inst, buf>>
    /\ ret' = Result("getitem", i, <<index>>, 0, {}, "none")
    /\ UNCHANGED <<grand_tree_list, tree, disk, fopen, fmem, hist>>

\* build_index("run_number") / build_index("run_number", "event_number"), lines 316-317, 373-374
build_index(i) ==
    /\ Live(i)
    /\ \E r \in {TTree_BuildIndex(tree, buf, inst[i].tree, "run_number",
                                  IF inst[i].cls = "RunTree" THEN "0" ELSE "event_number")} :
           /\ tree' = r.tree
           /\ buf' = r.buf
    /\ ret' = NoResult
    /\ UNCHANGED <<grand_tree_list, inst, disk, fopen, fmem, hist>>

\* DataTree.add_friend(value), lines 176-177, with the tree of instance j
add_friend(i, j) ==
    /\ Live(i)
    /\ Live(j)
    /\ Len(tree[inst[i].tree].friends) < MaxFriends
    /\ tree' = TTree_AddFriend(tree, inst[i].tree, inst[j].tree)
    /\ ret' = NoResult
    /\ UNCHANGED <<grand_tree_list, inst, buf, disk, fopen, fmem, hist>>

(***************************************************************************)
(* DataTree.write, lines 131-152.  path tells whether "f.root" was given   *)
(* as the first argument.  A tree without a file is written to a file that *)
(* no one holds open (one writer per container).                           *)
(***************************************************************************)
write(i, path) ==
    /\ Live(i)
    /\ Len(tree[inst[i].tree].friends) < MaxFriends
    /\ \E a \in {add_proper_friends([inst |-> inst, tree |-> tree, buf |-> buf], grand_tree_list, i)} :
       LET t == inst[i].tree
           creating_file == inst[i].file = "None" /\ path
           key == IF creating_file \/ ~path THEN tree[t].name ELSE "f.root"
           written == creating_file \/ (inst[i].file # "None" /\ fopen)
       IN  /\ creating_file => ~fopen
           /\ tree' = a.S.tree
           /\ buf' = a.S.buf
           \* line 140: self._file = ROOT.TFile(args[0], "update"); line 152: self._file.Close()
           /\ inst' = IF creating_file THEN [a.S.inst EXCEPT ![i].file = "Closed"] ELSE a.S.inst
           \* line 146: TTree::Write into the directory of the file, under the name given
           /\ disk' = IF written THEN Upd(disk, key, Snapshot(a.S.tree[t])) ELSE disk
           /\ hist' = IF written THEN [hist EXCEPT !.disk = Upd(@, key, hist.mem[t].rows)] ELSE hist
           \* line 138: args[0] of an empty args
           /\ ret' = Result("write", i, << >>, 0, a.msg,
                            IF inst[i].file = "None" /\ ~path THEN "IndexError" ELSE "none")
    /\ UNCHANGED <<grand_tree_list, fopen, fmem>>

(***************************************************************************)
(* DataTree.create_branch_from_field(value), lines 198-247, called for a   *)
(* field d that a class derived from the instance's class declares; the    *)
(* attribute of that name is an object of the instance.  exit() ends the   *)
(* process: ret.exc is "SystemExit".                                       *)
(***************************************************************************)
call_create_branch_from_field(i, d) ==
    /\ Live(i)
    /\ Len(tree[inst[i].tree].branches) < Len(dataclass_fields(inst[i].cls)) + MaxExtra
    /\ IF has_branch_call(d)
       THEN /\ buf' = Upd(buf, OwnBuf(i, d.name), DefaultValue(d))
            /\ tree' = [tree EXCEPT ![inst[i].tree].branches =
                            TTree_Branch(@, create_branch_from_field(d, OwnBuf(i, d.name)))]
            /\ ret' = Result("create_branch_from_field", i, <<d>>, 0,
                             IF tree' = tree THEN {"Illegal data type"} ELSE {}, "none")
       ELSE /\ ret' = Result("create_branch_from_field", i, <<d>>, 0, {"Unsupported type"}, "SystemExit")
            /\ UNCHANGED <<tree, buf>>
    /\ UNCHANGED <<grand_tree_list, inst, disk, fopen, fmem, hist>>

(***************************************************************************)
(* The values the callers give.                                            *)
(***************************************************************************)
PyInt(k) == [dt |-> "i8", v |-> <<k>>]

KeyValues == {PyInt(k) : k \in Keys}

\* a Python str, by its code
StringValues == {[dt |-> "str", v |-> <<k>>] : k \in Keys}

\* None, which no setter test accepts
NoneValue == [dt |-> "NoneType", v |-> << >>]

\* the values given to run_number and event_number, and to site
KeyOrSiteValues(f) == IF f = "site" THEN StringValues ELSE KeyValues

FloatValues == {[dt |-> "f4", v |-> <<1>>], [dt |-> "f8", v |-> <<1>>], [dt |-> "f4", v |-> <<1, 2>>]}

ArrayValues == {[dt |-> "f4", v |-> <<1, 2, 3>>]}

VectorValues == {[dt |-> "vec", v |-> <<1>>], [dt |-> "vec", v |-> <<1, 2>>]}

\* ROOT vectors of the element type of the column, made by the caller
NativeVectorValues == {[dt |-> "vector", v |-> val.v] : val \in VectorValues}

ValuesOf(d) ==
    CASE d.setter = "inplace" -> KeyValues
      [] d.setter = "string" -> StringValues
      [] d.setter = "replace" -> (IF d.n = 1 THEN FloatValues ELSE ArrayValues)
      [] OTHER -> VectorValues

Rows == 0..MaxRows

RECURSIVE SumEntries(_, _)
SumEntries(tr, T) ==
    IF T = {} THEN 0 ELSE LET x == CHOOSE y \in T : TRUE IN tr[x].entries + SumEntries(tr, T \ {x})

\* the fill calls made so far
TotalFills == SumEntries([t \in DOMAIN hist.mem |-> [entries |-> hist.mem[t].app]], DOMAIN hist.mem)

(***************************************************************************)
(* Spec: run trees and their file.  Up to MaxInst - 1 RunTrees are         *)
(* constructed, each in one of the three ways; entries are filled (MaxRows *)
(* fill calls in all), indexes built, trees written and read by entry      *)
(* number and by run_number.                                               *)
(***************************************************************************)
Next ==
    \/ \E how \in {"None", "TFile", "str"} : Len(inst) < MaxInst - 1 /\ post_init("RunTree", how)
    \/ OpenFile
    \/ \E i \in 1..Len(inst) : TotalFills < MaxRows /\ fill(i)
    \/ \E i \in 1..Len(inst) : write(i, inst[i].file = "None")
    \/ \E i \in 1..Len(inst) : build_index(i)
    \/ \E i \in 1..Len(inst), e \in Rows : get_entry(i, e)
    \/ \E i \in 1..Len(inst), k \in Keys : get_run(i, k)

Spec == Init /\ [][Next]_vars

(***************************************************************************)
(* SpecPersist: a run tree is made, given a run_number and a site, filled  *)
(* (MaxRows - 1 fill calls in all), written to "f.root" and read again     *)
(* from the file by name.                                                  *)
(***************************************************************************)
NextPersist ==
    \/ \E how \in {"None", "str"} : Len(inst) < MaxInst - 1 /\ post_init("RunTree", how)
    \/ \E i \in 1..Len(inst), f \in {"run_number", "site"} :
           \E val \in KeyOrSiteValues(f) : set_field(i, f, val)
    \/ \E i \in 1..Len(inst) : TotalFills < MaxRows - 1 /\ fill(i)
    \/ \E i \in 1..Len(inst) : write(i, inst[i].file = "None")
    \/ \E i \in 1..Len(inst) : get_entry(i, 0)
    \/ \E i \in 1..Len(inst), k \in Keys : get_run(i, k)

SpecPersist == Init /\ [][NextPersist]_vars

\* the instances of class cls constructed so far
Count(cls) == Len(InstancesOf(grand_tree_list, inst, cls))

(***************************************************************************)
(* SpecFields: one tree in memory, of either class; every field is set to  *)
(* values of the right and of the wrong element type and length, an entry  *)
(* is filled and entries are read by number, those that do not exist       *)
(* included.                                                               *)
(***************************************************************************)
NextFields ==
    \/ \E cls \in Classes : Len(inst) < MaxInst - 2 /\ post_init(cls, "None")
    \/ \E i \in 1..Len(inst) : \E f \in FieldNames(inst[i].cls) :
           \E val \in ValuesOf(Field(inst[i].cls, f)) : set_field(i, f, val)
    \/ \E i \in 1..Len(inst) : TotalFills < MaxRows - 1 /\ fill(i)
    \/ \E i \in 1..Len(inst), e \in Rows : get_entry(i, e)

SpecFields == Init /\ [][NextFields]_vars

(***************************************************************************)
(* SpecIndex: one tree in memory, of either class; keys are set, entries   *)
(* filled, the index built and entries looked up by key.                   *)
(***************************************************************************)
NextIndex ==
    \/ \E cls \in Classes : Len(inst) < MaxInst - 2 /\ post_init(cls, "None")
    \/ \E i \in 1..Len(inst), f \in {"run_number", "event_number"}, val \in KeyValues : set_field(i, f, val)
    \/ \E i \in 1..Len(inst) : fill(i)
    \/ \E i \in 1..Len(inst) : build_index(i)
    \/ \E i \in 1..Len(inst), k \in Keys : get_run(i, k)
    \/ \E i \in 1..Len(inst), e \in Keys, k \in Keys : get_event(i, e, k)
    \/ \E i \in 1..Len(inst), e \in Keys, k \in Keys : get_entry_with_index(i, k, e)

SpecIndex == Init /\ [][NextIndex]_vars

\* the entries of the trees of class cls
ClassFills(cls) == SumEntries(tree, {inst[i].tree : i \in {j \in 1..Len(inst) : Live(j) /\ inst[j].cls = cls}})

(***************************************************************************)
(* SpecFriends: up to MaxInst - 1 RunTrees (MaxRows entries in all) and    *)
(* one ADCEventTree (MaxRows - 1 entries) in memory; the event tree is     *)
(* written, which adds its friend (MaxFriends - 1 in all), and read by     *)
(* entry number.                                                           *)
(***************************************************************************)
NextFriends ==
    \/ Count("RunTree") < MaxInst - 1 /\ post_init("RunTree", "None")
    \/ Count("ADCEventTree") < MaxInst - 2 /\ post_init("ADCEventTree", "None")
    \/ \E i \in 1..Len(inst), f \in {"run_number", "site"} :
           \E val \in KeyOrSiteValues(f) : set_field(i, f, val)
    \/ \E i \in 1..Len(inst) :
           /\ ClassFills(inst[i].cls) < (IF inst[i].cls = "RunTree" THEN MaxRows ELSE MaxRows - 1)
           /\ fill(i)
    \/ \E i \in 1..Len(inst) :
           /\ inst[i].cls = "ADCEventTree"
           /\ Len(tree[inst[i].tree].friends) < MaxFriends - 1
           /\ write(i, TRUE)
    \/ \E i \in 1..Len(inst), e \in Rows : inst[i].cls = "ADCEventTree" /\ get_entry(i, e)

SpecFriends == Init /\ [][NextFriends]_vars

(***************************************************************************)
(* SpecResolve: up to MaxInst - 1 trees of each class in memory, with at   *)
(* most MaxRows - 1 entries each; trees are added as friends of an event   *)
(* tree with add_friend, in any order, and the event tree is read.         *)
(***************************************************************************)
NextResolve ==
    \/ \E cls \in Classes : Count(cls) < MaxInst - 1 /\ post_init(cls, "None")
    \/ \E i \in 1..Len(inst), val \in StringValues : inst[i].cls = "RunTree" /\ set_field(i, "site", val)
    \/ \E i \in 1..Len(inst), val \in KeyValues :
           inst[i].cls = "ADCEventTree" /\ set_field(i, "run_number", val)
    \/ \E i \in 1..Len(inst) : Live(i) /\ tree[inst[i].tree].entries < MaxRows - 1 /\ fill(i)
    \/ \E i \in 1..Len(inst), j \in 1..Len(inst) :
           inst[i].cls = "ADCEventTree" /\ j # i /\ add_friend(i, j)
    \/ \E i \in 1..Len(inst) : inst[i].cls = "ADCEventTree" /\ get_entry(i, 0)

SpecResolve == Init /\ [][NextResolve]_vars

\* the process has not ended in exit()
Running == ret.exc # "SystemExit"

(***************************************************************************)
(* SpecChain: up to MaxInst trees in memory, of the six classes, made in   *)
(* any order; each is written to the file any number of times, until it    *)
(* has MaxFriends friends.                                                 *)
(***************************************************************************)
NextChain ==
    \/ \E cls \in ChainClasses : post_init(cls, "None")
    \/ \E i \in 1..Len(inst) : write(i, TRUE)

SpecChain == Init /\ [][NextChain]_vars

(***************************************************************************)
(* SpecDetector: one DetectorInfo in memory; du_id and long are set, units *)
(* are filled (MaxRows in all), the tree is written, which builds its      *)
(* index, and units are read with d[index].                                *)
(***************************************************************************)
NextDetector ==
    \/ Len(inst) < MaxInst - 2 /\ post_init("DetectorInfo", "None")
    \/ \E i \in 1..Len(inst), f \in {"du_id", "long"}, val \in KeyValues : set_field(i, f, val)
    \/ \E i \in 1..Len(inst) : fill(i)
    \/ \E i \in 1..Len(inst) : write(i, TRUE)
    \/ \E i \in 1..Len(inst), index \in Keys : getitem(i, index)

SpecDetector == Init /\ [][NextDetector]_vars

(***************************************************************************)
(* SpecVectors: one tree in memory, of a class with a vector field; the    *)
(* field is set from a list or from a ROOT vector, and entries are filled. *)
(* Nothing happens after exit().                                           *)
(***************************************************************************)
VectorFields(cls) == {f \in FieldNames(cls) : Field(cls, f).kind = "vector"}

NextVectors ==
    \/ \E cls \in {"ADCEventTree", "VoltageEventTree", "EfieldEventTree", "ShowerEventSimdataTree"} :
           Len(inst) < MaxInst - 2 /\ post_init(cls, "None")
    \/ \E i \in 1..Len(inst) : \E f \in VectorFields(inst[i].cls) :
           \E val \in VectorValues \cup NativeVectorValues : Running /\ set_field(i, f, val)
    \/ \E i \in 1..Len(inst) : Running /\ fill(i)

SpecVectors == Init /\ [][NextVectors]_vars


\* the fields a derived class may declare: the supported kinds, an array of
\* np.float16, a two-dimensional array of np.complex64, and a plain int and
\* a list (the kind of _cur_du_id, which create_branches skips by name)
FieldShapes ==
    { [name |-> "x_f4", kind |-> "ndarray", dtype |-> "f4", ndim |-> 1, n |-> 1],
      [name |-> "x_b1", kind |-> "ndarray", dtype |-> "b1", ndim |-> 1, n |-> 1],
      [name |-> "x_f2", kind |-> "ndarray", dtype |-> "f2", ndim |-> 1, n |-> 1],
      [name |-> "x_i4x2", kind |-> "ndarray", dtype |-> "i4", ndim |-> 1, n |-> 2],
      [name |-> "x_c8", kind |-> "ndarray", dtype |-> "c8", ndim |-> 2, n |-> 1],
      [name |-> "x_vec", kind |-> "vector", dtype |-> "vec", ndim |-> 0, n |-> 0],
      [name |-> "x_str", kind |-> "string", dtype |-> "str", ndim |-> 0, n |-> 1],
      [name |-> "x_int", kind |-> "int", dtype |-> "i8", ndim |-> 0, n |-> 1],
      [name |-> "x_list", kind |-> "list", dtype |-> "obj", ndim |-> 0, n |-> 0] }

(***************************************************************************)
(* SpecSchema: one tree in memory, of either class; branches are made for  *)
(* up to MaxExtra further fields, of supported and of unsupported kinds,   *)
(* and an entry is filled.  Nothing happens after exit().                  *)
(***************************************************************************)
NextSchema ==
    \/ \E cls \in Classes : Len(inst) < MaxInst - 2 /\ post_init(cls, "None")
    \/ \E i \in 1..Len(inst), d \in FieldShapes : Running /\ call_create_branch_from_field(i, d)
    \/ \E i \in 1..Len(inst) : Running /\ TotalFills < MaxRows - 1 /\ fill(i)

SpecSchema == Init /\ [][NextSchema]_vars

(***************************************************************************)
(* SpecSetters: one tree in memory, of either class; every field is set,   *)
(* the string and the vector fields also to None, and an entry is filled.  *)
(* Nothing happens after exit().                                           *)
(***************************************************************************)
NextSetters ==
    \/ \E cls \in Classes : Len(inst) < MaxInst - 2 /\ post_init(cls, "None")
    \/ \E i \in 1..Len(inst) : \E f \in FieldNames(inst[i].cls) :
           \E val \in ValuesOf(Field(inst[i].cls, f))
                          \cup (IF Field(inst[i].cls, f).setter \in {"string", "vector"} THEN {NoneValue} ELSE {}) :
               Running /\ set_field(i, f, val)
    \/ \E i \in 1..Len(inst) : Running /\ TotalFills < MaxRows - 1 /\ fill(i)

SpecSetters == Init /\ [][NextSetters]_vars

(***************************************************************************)
(* Properties.                                                             *)
(***************************************************************************)
\* the instance, the tree and the history of the last call
Caller == ret.i
CallerTree == inst[ret.i].tree
CallerHist == hist.mem[inst[ret.i].tree]

\* the key columns and the site of a record
KeyPart(rec) == [run_number |-> rec.run_number, site |-> rec.site]

\* the key columns of a record of class cls, and the site of a run
KeyPartOf(cls, rec) ==
    IF cls = "RunTree" THEN KeyPart(rec)
    ELSE [run_number |-> rec.run_number, event_number |-> rec.event_number]

\* the last call was get_entry of a row the tree has
ReadOfRow ==
    /\ ret.op = "get_entry"
    /\ Live(Caller)
    /\ ret.arg[1] \in 0..(tree[CallerTree].entries - 1)

\* C7: opening a file for a table it does not hold, whether the file is given
\* as a TFile or by its name, raises nothing and gives a tree with no
\* entries and a branch for every field, and says that the tree is new.
C7_LenientOpen ==
    (ret.op = "init" /\ ret.arg[1] \in {"TFile", "str"} /\ ret.res = 0) =>
        /\ ret.exc = "none"
        /\ Live(Caller)
        /\ tree[CallerTree].entries = 0
        /\ \A f \in FieldNames(inst[Caller].cls) : HasBranch(tree, CallerTree, f)
        /\ ret.msg # {}

\* C9: the number of entries of every tree is the number it had when it was
\* read from the file (none for a tree the constructor made) plus the number
\* of fill calls made on it; no other call changes it.
C9_RowCount ==
    \A t \in DOMAIN tree : tree[t].entries = hist.mem[t].inh + hist.mem[t].app

\* a tree read from the file with an entry, filled once more, written and read
C9_InheritedAndAppended ==
    \E t \in DOMAIN tree :
        /\ hist.mem[t].inh > 0
        /\ hist.mem[t].app > 0
        /\ tree[t].index.built
        /\ ret.op = "get_run"

\* the rows of history h, among the first n, whose run_number is k
RowsOfRun(h, n, k) == {e \in 1..n : h.rows[e].rec.run_number = <<k>>}

\* the tree of the last call was read from the file with entries, each of
\* them filled into a tree its constructor had made, and none filled since
Reopened ==
    /\ Live(Caller)
    /\ CallerHist.inh > 0
    /\ CallerHist.app = 0
    /\ \A e \in 1..CallerHist.inh : CallerHist.rows[e].created

\* C2: once a run tree made by the constructor was filled, written to the
\* file and read again from the file under its name, get_entry of one of its
\* entries shows the run_number and the site that were filled; get_run of a
\* run_number that was filled shows an entry of that run_number as it was
\* filled; get_run of another run_number returns 0 and says there is no such
\* entry.
C2_Persistence ==
    /\ (ReadOfRow /\ Reopened) =>
           KeyPart(Record(inst, buf, Caller)) = KeyPart(CallerHist.rows[ret.arg[1] + 1].rec)
    /\ (ret.op = "get_run" /\ Reopened) =>
           IF RowsOfRun(CallerHist, CallerHist.inh, ret.arg[1]) # {}
           THEN /\ ret.res > 0
                /\ \E e \in RowsOfRun(CallerHist, CallerHist.inh, ret.arg[1]) :
                       KeyPart(Record(inst, buf, Caller)) = KeyPart(CallerHist.rows[e].rec)
           ELSE /\ ret.res = 0
                /\ ret.msg # {}

\* get_run found, in a tree read from the file, the entry that was filled
\* with run_number 1 and site 1 through another instance
C2_ReadByKeyAfterReopen ==
    /\ ret.op = "get_run"
    /\ Reopened
    /\ ret.arg[1] = 1
    /\ ret.res > 0
    /\ KeyPart(Record(inst, buf, Caller)) = [run_number |-> <<1>>, site |-> <<1>>]
    /\ \E j \in 1..Len(inst) : j # Caller /\ Live(j) /\ hist.mem[inst[j].tree].app > 0

\* C1: get_entry of an entry shows, in every field, what the instance showed
\* when that entry was filled, for a record that has the element types and
\* the lengths of the columns.
C1_RoundTrip ==
    (ReadOfRow /\ CallerHist.rows[ret.arg[1] + 1].conforms) =>
        Record(inst, buf, Caller) = CallerHist.rows[ret.arg[1] + 1].rec

\* C8: get_entry of a number that is not an entry of the tree raises
\* RowOutOfRange.
C8_BoundsChecked ==
    (ret.op = "get_entry" /\ Live(Caller) /\ ret.arg[1] \notin 0..(tree[CallerTree].entries - 1)) =>
        ret.exc = "RowOutOfRange"

\* C10: no entry of a tree was filled from a record with a field of another
\* element type or another length than its column.
C10_AppendValidates ==
    \A t \in DOMAIN hist.mem : \A e \in 1..Len(hist.mem[t].rows) : hist.mem[t].rows[e].conforms

\* the key of a row of the history of a tree of class cls: run_number and,
\* for an event tree, event_number (0 for a run tree, as in the index)
KeyOf(cls, row) ==
    <<row.rec.run_number[1], IF cls = "RunTree" THEN 0 ELSE row.rec.event_number[1]>>

\* the key the instance of the last call shows
CallerKey == KeyOf(inst[Caller].cls, [rec |-> Record(inst, buf, Caller)])

\* the rows of the tree of the last call that have the key the call asked for
RowsOfKey == {e \in 1..Len(CallerHist.rows) : KeyOf(inst[Caller].cls, CallerHist.rows[e]) = ret.arg}

\* the last call was a look-up by key in a tree made by the constructor,
\* whose index was built after its last entry was filled
LookupWithIndex ==
    /\ ret.op \in {"get_run", "get_event", "get_entry_with_index"}
    /\ Live(Caller)
    /\ NoDuplicateBranches(tree, CallerTree)
    /\ tree[CallerTree].index.built
    /\ Len(tree[CallerTree].index.rows) = tree[CallerTree].entries

\* C3: with the index built over the entries of the tree, get_run, get_event
\* and get_entry_with_index of a key some entry has show an entry of that
\* key, and of a key no entry has return 0 and say there is no such entry.
C3_IndexCorrect ==
    LookupWithIndex =>
        IF RowsOfKey # {}
        THEN /\ ret.res # 0
             /\ CallerKey = ret.arg
             /\ \E e \in RowsOfKey : KeyPartOf(inst[Caller].cls, Record(inst, buf, Caller))
                                        = KeyPartOf(inst[Caller].cls, CallerHist.rows[e].rec)
        ELSE /\ ret.res = 0
             /\ ret.msg # {}

\* get_event found the second entry of an event tree by its key, with
\* another key in the first entry
C3_SecondRowFound ==
    /\ ret.op = "get_event"
    /\ LookupWithIndex
    /\ tree[CallerTree].entries = 2
    /\ ret.res # 0
    /\ ret.arg = <<0, 1>>
    /\ KeyOf("ADCEventTree", CallerHist.rows[1]) = <<1, 0>>
    /\ KeyOf("ADCEventTree", CallerHist.rows[2]) = <<0, 1>>

\* C4: no tree holds two entries of the same key (run_number for a run
\* tree, run_number and event_number for an event tree).
C4_Uniqueness ==
    \A t \in DOMAIN hist.mem : \A i \in 1..Len(inst) :
        inst[i].tree = t =>
            \A a, b \in 1..Len(hist.mem[t].rows) :
                KeyOf(inst[i].cls, hist.mem[t].rows[a]) = KeyOf(inst[i].cls, hist.mem[t].rows[b]) => a = b

\* the RunTree instances registered, in order
RunTrees == InstancesOf(grand_tree_list, inst, "RunTree")

\* the last call was get_entry, by an event tree, of an entry it has
EventRead == ReadOfRow /\ inst[Caller].cls = "ADCEventTree"

\* the site the event tree of the last call gives: getattr(tree, "site")
ResolvedSite == TTree_getattr(tree, buf, CallerTree, "site")

\* C5: write of an event tree makes the tree of the RunTree registered last
\* its friend, and makes no friend when no RunTree is registered; an event
\* tree whose one friend is the tree of the RunTree registered last gives,
\* for its entry e, the site filled in entry e of that tree.
C5_Precedence ==
    /\ (ret.op = "write" /\ Live(Caller) /\ inst[Caller].cls = "ADCEventTree") =>
           IF Len(RunTrees) = 0 THEN tree[CallerTree].friends = << >>
           ELSE /\ tree[CallerTree].friends # << >>
                /\ Last(tree[CallerTree].friends) = inst[Last(RunTrees)].tree
                /\ (Len(RunTrees) > 1) = ("More than 1 RunTree" \in ret.msg)
    /\ (EventRead /\ Len(RunTrees) > 0 /\ tree[CallerTree].friends = <<inst[Last(RunTrees)].tree>>) =>
           LET ft == inst[Last(RunTrees)].tree
           IN  (~tree[ft].index.built /\ ret.arg[1] < Len(hist.mem[ft].rows)) =>
                   ResolvedSite = hist.mem[ft].rows[ret.arg[1] + 1].rec.site

\* two RunTrees hold an entry of run_number 1 each, the first of site 0 and
\* the second of site 1; the event tree, written after both were made, gives
\* site 1 for its entry of run_number 1
C5_TwoRunTrees ==
    /\ EventRead
    /\ Len(RunTrees) = 2
    /\ tree[CallerTree].friends = <<inst[RunTrees[2]].tree>>
    /\ Len(hist.mem[inst[RunTrees[1]].tree].rows) = 1
    /\ Len(hist.mem[inst[RunTrees[2]].tree].rows) = 1
    /\ KeyPart(hist.mem[inst[RunTrees[1]].tree].rows[1].rec) = [run_number |-> <<1>>, site |-> <<0>>]
    /\ KeyPart(hist.mem[inst[RunTrees[2]].tree].rows[1].rec) = [run_number |-> <<1>>, site |-> <<1>>]
    /\ CallerHist.rows[1].rec.run_number = <<1>>
    /\ ResolvedSite = <<1>>

\* C6: with one RunTree registered and its tree the friend of an event tree,
\* get_entry of an entry of the event tree gives the site of the entry of
\* the RunTree's tree that has the run_number of that entry.
C6_FriendResolution ==
    (EventRead /\ Len(RunTrees) = 1 /\ tree[CallerTree].friends = <<inst[RunTrees[1]].tree>>) =>
        LET h == hist.mem[inst[RunTrees[1]].tree]
            k == CallerHist.rows[ret.arg[1] + 1].rec.run_number[1]
        IN  \A e \in RowsOfRun(h, Len(h.rows), k) :
                Cardinality(RowsOfRun(h, Len(h.rows), k)) = 1 => ResolvedSite = h.rows[e].rec.site

\* C11: after a write that raised nothing, the file holds, under the name of
\* the tree, exactly the entries filled into the tree so far, each once; so
\* does it after a second write to the same file name with a fill in between.
C11_FlushPersists ==
    (ret.op = "write" /\ Live(Caller) /\ ret.exc = "none") =>
        /\ tree[CallerTree].name \in DOMAIN hist.disk
        /\ hist.disk[tree[CallerTree].name] = CallerHist.rows

\* C12: once write has closed the file it created for an instance, no call
\* adds an entry to the tree of that instance: fill is not accepted.
C12_NoAppendAfterClose ==
    [][\A i \in 1..Len(inst) :
          (Live(i) /\ inst[i].file = "Closed") =>
              tree'[inst[i].tree].entries = tree[inst[i].tree].entries]_vars

\* C13: get_run or get_event, called on a tree whose index was not built,
\* for a key that an entry of the tree has, builds the index and shows an
\* entry of that key; it does not say that there is no such entry.
C13_LazyIndexBuild ==
    [][(/\ ret'.op \in {"get_run", "get_event"}
        /\ Live(ret'.i)
        /\ ~tree[inst[ret'.i].tree].index.built
        /\ NoDuplicateBranches(tree, inst[ret'.i].tree)
        /\ RowsOfKey' # {}) =>
           /\ tree'[inst[ret'.i].tree].index.built
           /\ ret'.res # 0
           /\ CallerKey' = ret'.arg]_vars

\* C14: write of an event tree prints the notice "More than 1 RunTree"
\* exactly when more than one RunTree is registered, prints nothing when
\* none or one is, and in every case returns without raising, with a friend
\* added exactly when a RunTree is registered.
C14_AmbiguityNotice ==
    (ret.op = "write" /\ Live(Caller) /\ inst[Caller].cls = "ADCEventTree") =>
        /\ ("More than 1 RunTree" \in ret.msg) <=> (Count("RunTree") > 1)
        /\ Count("RunTree") <= 1 => ret.msg = {}
        /\ ret.exc = "none"
        /\ (tree[CallerTree].friends # << >>) <=> (Count("RunTree") > 0)

\* an event tree was written with two RunTrees registered and the notice
\* was printed
C14_NoticeWithTwo ==
    /\ ret.op = "write"
    /\ inst[Caller].cls = "ADCEventTree"
    /\ Count("RunTree") = 2
    /\ ret.msg = {"More than 1 RunTree"}
    /\ ret.exc = "none"

\* the first friend of the event tree of the last call, in the order the
\* friends were added, that has a branch site (NullTree when none has)
SiteOwner == FriendWithBranch(tree, CallerTree, 1, "site")

\* C15: after get_entry of entry e of an event tree, the tree gives for its
\* own fields run_number and event_number what was filled in its entry e,
\* whatever its friends hold under the same names; for site, which it does
\* not have, it gives what was filled in entry e of the first friend, in the
\* order the friends were added, that has a branch site; and with no such
\* friend the read of site fails.
C15_ResolveField ==
    EventRead =>
        /\ \A f \in {"run_number", "event_number"} :
               TTree_getattr(tree, buf, CallerTree, f) = CallerHist.rows[ret.arg[1] + 1].rec[f]
        /\ IF SiteOwner = NullTree THEN ResolvedSite = << >>
           ELSE ret.arg[1] < Len(hist.mem[SiteOwner].rows) =>
                    ResolvedSite = hist.mem[SiteOwner].rows[ret.arg[1] + 1].rec.site

\* the kinds of the schema: an array of one of the eleven numeric and bool
\* element types, a vector, a string
SupportedKind(d) ==
    \/ d.kind = "ndarray" /\ d.dtype \in {"i1", "u1", "i2", "u2", "i4", "u4", "i8", "u8", "f4", "f8", "b1"}
    \/ d.kind \in {"vector", "string"}

\* C16: create_branch_from_field ends the process for every field that is
\* not of a supported kind, an array of an unsupported element type
\* included, and for a field of a supported kind it returns with a branch
\* of that name in the tree.
C16_UnsupportedAborts ==
    (ret.op = "create_branch_from_field") =>
        IF SupportedKind(ret.arg[1])
        THEN ret.exc = "none" /\ HasBranch(tree, CallerTree, ret.arg[1].name)
        ELSE ret.exc = "SystemExit" /\ ~HasBranch(tree, CallerTree, ret.arg[1].name)

\* C17: a constructor that was given the file and found its tree among the
\* keys of the file leaves an instance whose tree has the entries that were
\* written and exactly one branch for every field of the class.
C17_OpenValidates ==
    (ret.op = "init" /\ ret.arg[1] \in {"TFile", "str"} /\ ret.res = 1 /\ Live(Caller)
        /\ CallerTree = Caller) =>
        /\ tree[CallerTree].entries = Len(hist.disk[tree[CallerTree].name])
        /\ \A f \in FieldNames(inst[Caller].cls) : HasBranch(tree, CallerTree, f)
        /\ NoDuplicateBranches(tree, CallerTree)

\* C18: a setter that does not accept the value it is given reports it to
\* the caller without ending the process, and leaves the record of the
\* instance as it was.
C18_RowErrorsReturned ==
    [][(ret'.op = "set_field" /\ ret'.msg # {}) =>
           /\ ret'.exc # "SystemExit"
           /\ Record(inst', buf', ret'.i) = Record(inst, buf, ret'.i)]_vars

\* C19: get_run, get_event or get_entry_with_index of a key that one entry
\* of the tree has, an entry filled after the index of the tree was last
\* built, shows that entry; it does not say that there is no such entry.
C19_StaleIndexRebuilt ==
    [][(/\ ret'.op \in {"get_run", "get_event", "get_entry_with_index"}
        /\ Live(ret'.i)
        /\ NoDuplicateBranches(tree, inst[ret'.i].tree)
        /\ tree[inst[ret'.i].tree].index.built
        /\ Cardinality(RowsOfKey') = 1
        /\ \E e \in RowsOfKey' : e > Len(tree[inst[ret'.i].tree].index.rows)) =>
           /\ ret'.res # 0
           /\ CallerKey' = ret'.arg]_vars

\* the RunTree instances that were registered before instance i was made
RunTreesBefore(i) == {j \in 1..(i - 1) : inst[j].cls = "RunTree" /\ Live(j)}

\* C20: an event tree made while a RunTree is registered has the tree of a
\* RunTree as a friend from its construction on; get_entry of one of its
\* entries gives a site, whether or not the event tree was written.
C20_LinkedAtOpen ==
    /\ \A i \in 1..Len(inst) :
           (Live(i) /\ inst[i].cls = "ADCEventTree" /\ RunTreesBefore(i) # {}) =>
               \E k \in 1..Len(tree[inst[i].tree].friends) :
                   tree[inst[i].tree].friends[k] \in {inst[j].tree : j \in RunTreesBefore(i)}
    /\ (EventRead /\ RunTreesBefore(Caller) # {}) => ResolvedSite # << >>

(***************************************************************************)
(* C21  Attach builds the index of the reference store: when the write of  *)
(* an ADCEventTree has made a RunTree its friend, every friend that holds  *)
(* entries has an index built over run_number.                             *)
(* add_proper_friends of the ADCEventTree (lines 1237-1256) builds the     *)
(* index of its own tree only.                                             *)
(***************************************************************************)
C21_AttachBuildsIndex ==
    (ret.op = "write" /\ inst[Caller].cls = "ADCEventTree") =>
        \A k \in 1..Len(tree[CallerTree].friends) :
            LET ft == tree[CallerTree].friends[k]
            IN  tree[ft].entries > 0 => (tree[ft].index.built /\ tree[ft].index.major = "run_number")

(***************************************************************************)
(* C22  Attach with no candidate: a write of an ADCEventTree while no      *)
(* RunTree is in grand_tree_list leaves the friends of the tree as they    *)
(* were, prints no notice and raises nothing; a write while a RunTree is   *)
(* in the list, also one that follows such a write of the same tree, adds  *)
(* the tree of the RunTree constructed last.                               *)
(***************************************************************************)
C22_NoCandidateNoOp ==
    [][ret'.op = "write" =>
          LET t == inst[ret'.i].tree
              cands == {j \in 1..Len(inst) : inst[j].cls = "RunTree"}
          IN  IF cands = {}
              THEN tree'[t].friends = tree[t].friends /\ ret'.msg = {} /\ ret'.exc = "none"
              ELSE \E j \in cands :
                       /\ \A k \in cands : k <= j
                       /\ tree'[t].friends = Append(tree[t].friends, inst[j].tree)]_vars

\* a write has attached a RunTree to an event tree that an earlier write,
\* before the event tree was filled, had put on disk
C22_AttachedByLaterWrite ==
    /\ ret.op = "write"
    /\ Len(tree[CallerTree].friends) = 1
    /\ tree_name(inst[Caller].cls) \in DOMAIN disk
    /\ disk[tree_name(inst[Caller].cls)].entries < tree[CallerTree].entries

(***************************************************************************)
(* C23  grand_tree_list is append-only: a step leaves the list as it was   *)
(* or extends it at the end, never removing or reordering an entry, and    *)
(* the list holds every instance once, in the order of construction.       *)
(***************************************************************************)
C23_RegistryAppendOnly ==
    [][/\ Len(grand_tree_list') >= Len(grand_tree_list)
       /\ SubSeq(grand_tree_list', 1, Len(grand_tree_list)) = grand_tree_list
       /\ Len(grand_tree_list') = Len(inst')
       /\ \A k \in 1..Len(inst') : grand_tree_list'[k] = k]_vars

\* a tree was written while the list held two instances, the first of which
\* got no tree from the file
C23_WriteWithTwoRegistered ==
    /\ ret.op = "write"
    /\ grand_tree_list = <<1, 2>>
    /\ inst[1].tree = NullTree

(***************************************************************************)
(* C25  Fixed-size arrays: the branch made for a field whose default is an *)
(* array of N > 1 elements of a supported element type is a leaf of that   *)
(* element type and of length N.  Stated for the fields of the class of    *)
(* every tree and for the field create_branch_from_field was called with.  *)
(* Lines 210-231 assign the type letter over the size computed before.     *)
(***************************************************************************)
FixedArrayBranch(t, d) ==
    /\ HasBranch(tree, t, d.name)
    /\ FirstBranch(tree, t, d.name).kind = "leaf"
    /\ FirstBranch(tree, t, d.name).tchar = DtypeChar(d.dtype)
    /\ FirstBranch(tree, t, d.name).len = d.n

C25_FixedArrayKeepsLength ==
    /\ \A i \in 1..Len(inst) :
           Live(i) => \A k \in 1..Len(dataclass_fields(inst[i].cls)) :
                          LET d == dataclass_fields(inst[i].cls)[k]
                          IN  (d.kind = "ndarray" /\ d.n > 1 /\ DtypeChar(d.dtype) # "") =>
                                  FixedArrayBranch(inst[i].tree, d)
    /\ (ret.op = "create_branch_from_field"
            /\ ret.arg[1].kind = "ndarray" /\ ret.arg[1].n > 1 /\ DtypeChar(ret.arg[1].dtype) # "") =>
           FixedArrayBranch(CallerTree, ret.arg[1])

(***************************************************************************)
(* C26  Store isolation: a property setter called on one instance changes  *)
(* the record of no other instance.  (A setter step is the one that        *)
(* returns nothing, leaves every tree as it was and changes a buffer.)     *)
(* The defaults of the dataclass fields are objects of the class, which    *)
(* every instance of the class takes as its attribute.                     *)
(***************************************************************************)
SetterStep == ret'.op = "none" /\ tree' = tree /\ inst' = inst /\ buf' # buf

C26_StoreIsolation ==
    [][SetterStep =>
          Cardinality({j \in 1..Len(inst) : Record(inst', buf', j) # Record(inst, buf, j)}) <= 1]_vars

(***************************************************************************)
(* C24  Fixed friend topology: every friend of the tree of an ADCEventTree *)
(* is the tree of a RunTree, every friend of the tree of a                 *)
(* VoltageEventTree the tree of an ADCEventTree, every friend of the tree  *)
(* of an EfieldEventTree the tree of a VoltageEventTree; the tree of a     *)
(* RunTree, a DetectorInfo or a ShowerEventSimdataTree has no friend; no   *)
(* tree is its own friend.                                                 *)
(***************************************************************************)
ClassOfTree(t) == inst[CHOOSE j \in 1..Len(inst) : inst[j].tree = t].cls

C24_FixedTopology ==
    \A i \in 1..Len(inst) :
        Live(i) =>
            \A k \in 1..Len(tree[inst[i].tree].friends) :
                LET ft == tree[inst[i].tree].friends[k]
                IN  /\ ft # inst[i].tree
                    /\ \/ inst[i].cls = "ADCEventTree" /\ ClassOfTree(ft) = "RunTree"
                       \/ inst[i].cls = "VoltageEventTree" /\ ClassOfTree(ft) = "ADCEventTree"
                       \/ inst[i].cls = "EfieldEventTree" /\ ClassOfTree(ft) = "VoltageEventTree"

\* a DetectorInfo was written while an EfieldEventTree has a VoltageEventTree
\* for friend
C24_EfieldOnVoltage ==
    /\ ret.op = "write"
    /\ inst[Caller].cls = "DetectorInfo"
    /\ \E i \in 1..Len(inst) : inst[i].cls = "EfieldEventTree" /\ Len(tree[inst[i].tree].friends) = 1

(***************************************************************************)
(* C27  Attach is idempotent: however many times a tree is written, no     *)
(* tree is twice in its list of friends.                                   *)
(* Every write calls add_proper_friends (line 133), which calls AddFriend. *)
(***************************************************************************)
C27_AttachIdempotent ==
    \A i \in 1..Len(inst) :
        Live(i) => \A k, l \in 1..Len(tree[inst[i].tree].friends) :
                       tree[inst[i].tree].friends[k] = tree[inst[i].tree].friends[l] => k = l

(***************************************************************************)
(* C28  Dependency chain: when a RunTree, an ADCEventTree and a            *)
(* VoltageEventTree are in grand_tree_list and each has been written, the  *)
(* site of the RunTree is found from the tree of the VoltageEventTree,     *)
(* through the friend of its friend.                                       *)
(***************************************************************************)
Written(cls) == \E i \in 1..Len(inst) : inst[i].cls = cls /\ inst[i].file = "Closed"

C28_ChainReachable ==
    (Written("RunTree") /\ Written("ADCEventTree") /\ Written("VoltageEventTree")) =>
        \A i \in 1..Len(inst) :
            (inst[i].cls = "VoltageEventTree" /\ inst[i].file = "Closed") =>
                FriendWithBranch(tree, inst[i].tree, 1, "site") # NullTree

(***************************************************************************)
(* C29  DetectorInfo indexing: after d[index] the fields of the instance   *)
(* are those of a unit that was filled with that du_id; when no unit was   *)
(* filled with that du_id, they are those of no unit of the table.         *)
(* __getitem__ (lines 4364-4369) reads through an index that only write    *)
(* builds, does not look at what GetEntryWithIndex returns, and remembers  *)
(* the index it was asked for, found or not.                               *)
(***************************************************************************)
UnitsWith(index) == {e \in 1..Len(CallerHist.rows) : CallerHist.rows[e].rec.du_id = <<index>>}

C29_GetItemExposesUnit ==
    (ret.op = "getitem") =>
        IF UnitsWith(ret.arg[1]) # {}
        THEN \E e \in UnitsWith(ret.arg[1]) : Record(inst, buf, Caller) = CallerHist.rows[e].rec
        ELSE \A e \in 1..Len(CallerHist.rows) : Record(inst, buf, Caller) # CallerHist.rows[e].rec

(***************************************************************************)
(* C30  Variable-length field assignment: a list and a ROOT vector of the  *)
(* element type of the column are both accepted by the setter of a vector  *)
(* field, at any time; and every entry filled holds, for a vector field,   *)
(* the content the instance showed for the field when it was filled.       *)
(* A setter given a ROOT vector makes the attribute that vector, while the *)
(* branch keeps the address of the vector the class was defined with.      *)
(***************************************************************************)
C30_VectorAssignment ==
    /\ ret.op # "set_field"
    /\ \A i \in 1..Len(inst) :
           Live(i) => \A f \in VectorFields(inst[i].cls) :
                          \A e \in 1..tree[inst[i].tree].entries :
                              FirstBranch(tree, inst[i].tree, f).data[e] = hist.mem[inst[i].tree].rows[e].rec[f]

====
